---- MODULE Spec2Model ----
(***************************************************************************)
(* Model of src/main.rs: the JNI bridge to the Java class GlobalEq, the    *)
(* EqualizerUI control closures, the spectrum poller thread and the        *)
(* FrequencyChart drag handlers.                                           *)
(*                                                                         *)
(* Gains are integers in millibels (1/100 dB), the unit the Java side      *)
(* hands to Equalizer.setBandLevel.  Pointer y values are drawn from       *)
(* multiples of 25 px, for which the f32 arithmetic of on_mouse_move is    *)
(* exact.  The axis conversions are also given in f32 arithmetic proper    *)
(* (SpecAxis), and the Java methods statement by statement (SpecRace).     *)
(***************************************************************************)
EXTENDS Integers, Sequences, FiniteSets, TLC

VARIABLES
    GLOBAL_JNI_ENV,       \* static mut GLOBAL_JNI_ENV: TRUE iff Some(raw)
    JAVA_GLOBALEQ_CLASS,  \* static mut JAVA_GLOBALEQ_CLASS: TRUE iff Some(ref)
    GlobalEq,             \* static fields of the Java class and the effect objects
    band_states,          \* EqualizerUI: use_state per band
    volume_state,         \* EqualizerUI: use_state volume
    spectro_data,         \* EqualizerUI: use_state spectrogram frame
    dragging,             \* FrequencyChart: {} = None, {i} = Some(i)
    button,               \* the physical pointer button: "up" or "down"
    uiPanicked,           \* the UI thread has panicked in a handler
    view,                 \* poller effect: "idle", "running", "stopping"
    gen,                  \* number of poller threads spawned so far
    thPc,                 \* per poller thread: position in the loop
    running,              \* per poller thread: its Arc<AtomicBool>
    pollRes,              \* per poller thread: result of its last getFftData
    stopAt,               \* history: where each thread was when its flag was cleared
    latePublish,          \* history: a publish happened after its teardown returned
    pending,              \* history: threads with a poll issued and not yet consumed, oldest first
    outOfOrder,           \* history: a frame was published ahead of an older pending poll
    afterStop,            \* history: per thread, polls and publishes made after its flag was cleared
    lastOp,               \* history: the last control operation and its result
    lastStart,            \* history: index of the most recent drag-start
    lastMove,             \* history: the last pointer-move and the callback it made
    axis,                 \* the axis conversions applied to one gain: input, y, result
    race                  \* statement-level positions inside the Java methods

vars == <<GLOBAL_JNI_ENV, JAVA_GLOBALEQ_CLASS, GlobalEq, band_states,
          volume_state, spectro_data, dragging, button, uiPanicked, view, gen,
          thPc, running, pollRes, stopAt, latePublish, pending, outOfOrder,
          afterStop, lastOp, lastStart, lastMove, axis, race>>

uiVars == <<band_states, volume_state, dragging, button, uiPanicked,
            lastStart, lastMove>>
pollerVars == <<view, gen, thPc, running, pollRes, stopAt, latePublish, pending,
               outOfOrder, afterStop, spectro_data>>
\* the variables that only the specifications of single functions use
auxVars == <<axis, race>>
progVars == <<GLOBAL_JNI_ENV, JAVA_GLOBALEQ_CLASS, GlobalEq, lastOp, uiVars, pollerVars>>

---------------------------------------------------------------------------
(* Program constants *)

NUM_BANDS == 8
SPECTRO_LEN == 128

\* A float array or Vec<f32> of magnitudes is kept as its length and its
\* non-zero entries <<index, value>> (index from 0)
Frame(n, nz) == [len |-> n, nz |-> nz]
EmptyFrame == Frame(0, {})
SPECTRO_INIT == Frame(SPECTRO_LEN, {})
min_db == -2400
max_db == 2400
CHART_H == 200

(* Bounds of the model *)

MaxGen == 2        \* poller threads spawned
MaxRep == 2        \* consecutive initialize calls counted
MaxCentidb == 3000 \* largest gain given to the axis conversions, in 0.01 dB

Bands == 0 .. (NUM_BANDS - 1)
Flat == [i \in Bands |-> 0]

\* Inputs explored
BandArgs == {2, 6, 8}                  \* indices given to set_band (8 is out of range)
Markers == {2, 6}                      \* band markers the pointer presses
PointerYs == {-50, 0, 100, 250}        \* page y of pointer-move events
VolumeArgs == {600}                    \* slider values, millibels
GainArgs == {2400, -2400}              \* gains given to set_band directly
RealBandsSet == {5, 10}                \* Equalizer.getNumberOfBands() of a device
CaptureBytes == {<<7>>, <<0, 0, -3, 4>>, <<1, 2, 0, 0, 6, 8>>}   \* getFft() byte arrays
FftOutcomes == {[kind |-> "throws", bytes |-> <<>>], [kind |-> "null", bytes |-> <<>>]}
               \cup {[kind |-> "bytes", bytes |-> b] : b \in CaptureBytes}

---------------------------------------------------------------------------
(* Java: class GlobalEq *)

\* (short) of an int: two's complement truncation to 16 bits
ToShort(x) == ((x + 32768) % 65536) - 32768

Min(a, b) == IF a < b THEN a ELSE b

\* Math.sqrt on the perfect squares the captures produce
Sqrt(n) == CHOOSE r \in 0 .. n : r * r = n

\* initGlobalEq, first try block, with the outcome of the Equalizer calls:
\*   "ok", "release" (release() throws), "ctor" (the constructor throws),
\*   "setup" (setEnabled throws); rb: the number of bands of the new Equalizer
initEqualizer(J, eqOut, rb) ==
    IF eqOut = "release" THEN J
    ELSE LET rel == [J EXCEPT
                 !.eqAlive = IF J.eq = "obj" THEN J.eqAlive - 1 ELSE J.eqAlive,
                 !.eq = "null", !.realBands = 0, !.eqLevel = Flat,
                 !.eqEnabled = FALSE]
         IN  IF eqOut = "ctor" THEN rel
             ELSE [rel EXCEPT !.eq = "obj",
                              !.eqAlive = rel.eqAlive + 1,
                              !.realBands = rb,
                              !.eqEnabled = (eqOut = "ok")]

\* initMirror with the volume reset left out
initMirror_bands_only(J) ==
    [J EXCEPT !.bandGains = Flat]

\* initGlobalEq, the reset of the mirrored gains between the try blocks
initMirror(J) ==
    [J EXCEPT !.bandGains = Flat, !.globalVol = 0]

\* initGlobalEq, second try block, with the outcome of the Visualizer calls
\* ("setup": getCaptureSizeRange, setCaptureSize or setEnabled throws)
initVisualizer(J, visOut) ==
    IF visOut = "release" THEN J
    ELSE LET rel == [J EXCEPT
                 !.visAlive = IF J.visualizer = "obj"
                              THEN J.visAlive - 1 ELSE J.visAlive,
                 !.visualizer = "null", !.visEnabled = FALSE]
         IN  IF visOut = "ctor" THEN rel
             ELSE [rel EXCEPT !.visualizer = "obj",
                              !.visAlive = rel.visAlive + 1,
                              !.visEnabled = (visOut = "ok")]

initGlobalEq(J, eqOut, visOut, rb) ==
    [j |-> initVisualizer(
               initMirror(initEqualizer([J EXCEPT !.bandCalls = {}], eqOut, rb)),
               visOut),
     threw |-> FALSE, ret |-> EmptyFrame]

\* setBandGain without the test idx < realBands: the level is sent for
\* every index below NUM_BANDS
setBandGain_always_sends(J, idx, gain, levelThrows) ==
    LET J0 == [J EXCEPT !.bandCalls = {}]
    IN  IF J.eq = "null" THEN [j |-> J0, threw |-> FALSE, ret |-> EmptyFrame]
        ELSE IF idx < 0 \/ idx >= NUM_BANDS THEN [j |-> J0, threw |-> FALSE, ret |-> EmptyFrame]
        ELSE [j |-> [J0 EXCEPT !.bandGains[idx] = gain,
                               !.bandCalls = {idx},
                               !.eqLevel[idx] = IF levelThrows THEN J0.eqLevel[idx]
                                                ELSE ToShort(gain)],
              threw |-> FALSE, ret |-> EmptyFrame]

\* setBandGain(idx, gainDb); levelThrows: eq.setBandLevel raises an Exception
setBandGain(J, idx, gain, levelThrows) ==
    LET J0 == [J EXCEPT !.bandCalls = {}]
    IN  IF J.eq = "null" THEN [j |-> J0, threw |-> FALSE, ret |-> EmptyFrame]
        ELSE IF idx < 0 \/ idx >= NUM_BANDS THEN [j |-> J0, threw |-> FALSE, ret |-> EmptyFrame]
        ELSE LET J1 == [J0 EXCEPT !.bandGains[idx] = gain]
             IN  IF idx < J.realBands
                 THEN [j |-> [J1 EXCEPT !.bandCalls = {idx},
                                        !.eqLevel[idx] =
                                            IF levelThrows THEN J1.eqLevel[idx]
                                            ELSE ToShort(gain)],
                       threw |-> FALSE, ret |-> EmptyFrame]
                 ELSE [j |-> J1, threw |-> FALSE, ret |-> EmptyFrame]

setGlobalVolume(J, vol) ==
    [j |-> [J EXCEPT !.globalVol = vol, !.bandCalls = {}],
     threw |-> FALSE, ret |-> EmptyFrame]

\* resetToFlat; failAt: the band whose eq.setBandLevel call throws
\* (NUM_BANDS: none does)
resetToFlat(J, failAt) ==
    IF J.eq = "null"
    THEN [j |-> [J EXCEPT !.bandCalls = {}], threw |-> FALSE, ret |-> EmptyFrame]
    ELSE LET sent == Min(NUM_BANDS, J.realBands)
         IN  IF failAt < sent
             THEN [j |-> [J EXCEPT
                       !.bandGains = [i \in Bands |->
                           IF i <= failAt THEN 0 ELSE J.bandGains[i]],
                       !.eqLevel = [i \in Bands |->
                           IF i < failAt THEN 0 ELSE J.eqLevel[i]],
                       !.bandCalls = 0 .. failAt],
                   threw |-> TRUE, ret |-> EmptyFrame]
             ELSE [j |-> [J EXCEPT
                       !.bandGains = Flat,
                       !.eqLevel = [i \in Bands |->
                           IF i < sent THEN 0 ELSE J.eqLevel[i]],
                       !.bandCalls = 0 .. (sent - 1),
                       !.globalVol = 0],
                   threw |-> FALSE, ret |-> EmptyFrame]

\* getFftData without the null test of the captured array: fftBytes.length
\* on a null capture throws
getFftData_no_null_test(J, cap) ==
    IF J.visualizer = "null" THEN [j |-> J, threw |-> FALSE, ret |-> EmptyFrame]
    ELSE IF cap.kind \in {"throws", "null"}
    THEN [j |-> J, threw |-> TRUE, ret |-> EmptyFrame]
    ELSE IF Len(cap.bytes) < 2 THEN [j |-> J, threw |-> FALSE, ret |-> EmptyFrame]
    ELSE LET n == Len(cap.bytes) \div 2
             Mag(i) == LET real == cap.bytes[2 * i + 1]
                           imag == cap.bytes[2 * i + 2]
                       IN  Sqrt(real * real + imag * imag)
         IN  [j |-> J, threw |-> FALSE,
              ret |-> Frame(n, {<<i, Mag(i)>> : i \in {k \in 1 .. (n - 1) : Mag(k) # 0}})]

\* getFftData; cap: what visualizer.getFft() does: [kind |-> "throws"],
\* [kind |-> "null"] or [kind |-> "bytes", bytes |-> the array]
getFftData(J, cap) ==
    IF J.visualizer = "null" THEN [j |-> J, threw |-> FALSE, ret |-> EmptyFrame]
    ELSE IF cap.kind = "throws" THEN [j |-> J, threw |-> TRUE, ret |-> EmptyFrame]
    ELSE IF cap.kind = "null" THEN [j |-> J, threw |-> FALSE, ret |-> EmptyFrame]
    ELSE IF Len(cap.bytes) < 2 THEN [j |-> J, threw |-> FALSE, ret |-> EmptyFrame]
    ELSE LET n == Len(cap.bytes) \div 2
             Mag(i) == LET real == cap.bytes[2 * i + 1]
                           imag == cap.bytes[2 * i + 2]
                       IN  Sqrt(real * real + imag * imag)
         IN  [j |-> J, threw |-> FALSE,
              ret |-> Frame(n, {<<i, Mag(i)>> : i \in {k \in 1 .. (n - 1) : Mag(k) # 0}})]

---------------------------------------------------------------------------
(* Rust: the JNI bridge *)

\* with_jni_env(f): Err when no JNIEnv pointer is stored, else f's result.
\* The stored pointer comes from a live JNIEnv and is never null, so
\* JNIEnv::from_raw succeeds.
with_jni_env(r) ==
    IF GLOBAL_JNI_ENV THEN r
    ELSE [res |-> "NoEnv", j |-> GlobalEq, ret |-> EmptyFrame]

\* JAVA_GLOBALEQ_CLASS.as_ref().ok_or(..)? followed by
\* env.call_static_method(..).map_err(..)?, given what the Java method does
call_static_method(jr) ==
    IF ~JAVA_GLOBALEQ_CLASS
    THEN [res |-> "NoClass", j |-> GlobalEq, ret |-> EmptyFrame]
    ELSE [res |-> IF jr.threw THEN "CallFail" ELSE "Ok", j |-> jr.j, ret |-> jr.ret]

call_void_static_method_init(eqOut, visOut, rb) ==
    call_static_method(initGlobalEq(GlobalEq, eqOut, visOut, rb))

call_set_band_gain(idx, gain, levelThrows) ==
    call_static_method(setBandGain(GlobalEq, idx, gain, levelThrows))

call_set_global_volume(vol) ==
    call_static_method(setGlobalVolume(GlobalEq, vol))

call_reset_to_flat(failAt) ==
    call_static_method(resetToFlat(GlobalEq, failAt))

\* call_get_fft_data; marshalOk: ret.l(), get_array_length and
\* get_float_array_region all succeed
call_get_fft_data(cap, marshalOk) ==
    LET r == call_static_method(getFftData(GlobalEq, cap))
    IN  IF r.res = "Ok" /\ ~marshalOk
        THEN [res |-> "MarshalFail", j |-> r.j, ret |-> EmptyFrame]
        ELSE r

ErrorKinds == {"NoEnv", "NoClass", "CallFail", "MarshalFail"}
AbsentKinds == {"NoEnv", "NoClass"}

\* The record kept of a control operation: its name, the Result of its
\* bridge call, whether every foreign call inside it returned normally, the
\* band index it was given (-1: none), how many initialize calls in a row
\* have returned Ok, the gain it was given (set by set_band), and whether
\* every bridge call of the control closures so far has returned Ok
Op(name, res, clean, idx, rep) ==
    [op |-> name, res |-> res, clean |-> clean, idx |-> idx, rep |-> rep,
     arg |-> 0, allOk |-> (lastOp.allOk /\ res \notin ErrorKinds)]

\* The outcomes of the effect objects' calls that initGlobalEq can meet
InitOutcomes(ref) ==
    {"ok", "ctor", "setup"} \cup (IF ref # "null" THEN {"release"} ELSE {})

\* The bands at which a setBandLevel call of resetToFlat can throw
FailPoints == {NUM_BANDS} \cup
    (IF GLOBAL_JNI_ENV /\ JAVA_GLOBALEQ_CLASS /\ GlobalEq.eq # "null"
     THEN 0 .. (Min(NUM_BANDS, GlobalEq.realBands) - 1) ELSE {})

Reaches == GLOBAL_JNI_ENV /\ JAVA_GLOBALEQ_CLASS

---------------------------------------------------------------------------
InitProgram ==
    /\ GLOBAL_JNI_ENV = FALSE
    /\ JAVA_GLOBALEQ_CLASS = FALSE
    /\ GlobalEq = [eq |-> "null", visualizer |-> "null", bandGains |-> Flat,
                   globalVol |-> 0, eqAlive |-> 0, visAlive |-> 0,
                   eqEnabled |-> FALSE, visEnabled |-> FALSE, realBands |-> 0,
                   eqLevel |-> Flat, bandCalls |-> {}]
    /\ band_states = Flat
    /\ volume_state = 0
    /\ spectro_data = SPECTRO_INIT
    /\ dragging = {}
    /\ button = "up"
    /\ uiPanicked = FALSE
    /\ view = "idle"
    /\ gen = 0
    /\ thPc = [g \in 1 .. MaxGen |-> "unspawned"]
    /\ running = [g \in 1 .. MaxGen |-> FALSE]
    /\ pollRes = [g \in 1 .. MaxGen |->
                    [res |-> "none", ret |-> EmptyFrame, engine |-> "none"]]
    /\ stopAt = [g \in 1 .. MaxGen |-> "none"]
    /\ latePublish = FALSE
    /\ pending = <<>>
    /\ outOfOrder = FALSE
    /\ afterStop = [g \in 1 .. MaxGen |-> [polls |-> 0, pubs |-> 0]]
    /\ lastOp = [op |-> "none", res |-> "none", clean |-> TRUE, idx |-> -1,
                 rep |-> 0, arg |-> 0, allOk |-> TRUE]
    /\ lastStart = -1
    /\ lastMove = [seen |-> FALSE, y |-> 0, target |-> -1, cb |-> <<>>]


\* Java_com_example_minEq_MainActivity_storeJNIEnv
StoreJNIEnv ==
    /\ GLOBAL_JNI_ENV' = TRUE
    /\ UNCHANGED <<auxVars, JAVA_GLOBALEQ_CLASS, GlobalEq, uiVars, pollerVars, lastOp>>

\* install_java_source_and_init, run once with an env by the bootstrap;
\* found: find_class and new_global_ref both succeed.  main.rs defines it
\* and holds no call of it.
InstallJavaSourceAndInit ==
    /\ GLOBAL_JNI_ENV
    /\ ~JAVA_GLOBALEQ_CLASS
    /\ \E found \in BOOLEAN :
        IF ~found
        THEN /\ lastOp' = Op("install", "FindClassFail", TRUE, -1, 0)
             /\ UNCHANGED <<JAVA_GLOBALEQ_CLASS, GlobalEq>>
        ELSE /\ JAVA_GLOBALEQ_CLASS' = TRUE
             /\ \E eqOut \in InitOutcomes(GlobalEq.eq),
                   visOut \in InitOutcomes(GlobalEq.visualizer),
                   rb \in RealBandsSet :
                    /\ GlobalEq' = initGlobalEq(GlobalEq, eqOut, visOut, rb).j
                    /\ lastOp' = Op("install", "Ok",
                                    eqOut = "ok" /\ visOut = "ok", -1, 0)
    /\ UNCHANGED <<auxVars, GLOBAL_JNI_ENV, uiVars, pollerVars>>

\* EqualizerUI: the init use_effect
Initialize ==
    /\ \E eqOut \in InitOutcomes(GlobalEq.eq),
          visOut \in InitOutcomes(GlobalEq.visualizer),
          rb \in RealBandsSet :
        LET r == with_jni_env(call_void_static_method_init(eqOut, visOut, rb))
        IN  /\ GlobalEq' = r.j
            /\ lastOp' = Op("initialize", r.res, eqOut = "ok" /\ visOut = "ok", -1,
                          IF r.res # "Ok" THEN 0
                          ELSE IF lastOp.op = "initialize"
                          THEN Min(lastOp.rep + 1, MaxRep) ELSE 1)
    /\ UNCHANGED <<auxVars, GLOBAL_JNI_ENV, JAVA_GLOBALEQ_CLASS, uiVars, pollerVars>>

\* set_band writing the gain to every band's state instead of band idx
set_band_every_band(idx, db, levelThrows) ==
    IF idx \notin Bands
    THEN /\ uiPanicked' = TRUE
         /\ lastOp' = Op("setBandGain", "Panic", TRUE, idx, 0)
         /\ UNCHANGED <<band_states, GlobalEq>>
    ELSE LET r == with_jni_env(call_set_band_gain(idx, db, levelThrows))
         IN  /\ band_states' = [i \in Bands |-> db]
             /\ GlobalEq' = r.j
             /\ lastOp' = [Op("setBandGain", r.res, ~levelThrows, idx, 0)
                              EXCEPT !.arg = db]
             /\ UNCHANGED uiPanicked

\* EqualizerUI: set_band(idx, db).  band_states[idx] panics for an index
\* outside the Vec, before anything else happens.
set_band(idx, db, levelThrows) ==
    IF idx \notin Bands
    THEN /\ uiPanicked' = TRUE
         /\ lastOp' = Op("setBandGain", "Panic", TRUE, idx, 0)
         /\ UNCHANGED <<band_states, GlobalEq>>
    ELSE LET r == with_jni_env(call_set_band_gain(idx, db, levelThrows))
         IN  /\ band_states' = [band_states EXCEPT ![idx] = db]
             /\ GlobalEq' = r.j
             /\ lastOp' = [Op("setBandGain", r.res, ~levelThrows, idx, 0)
                              EXCEPT !.arg = db]
             /\ UNCHANGED uiPanicked

\* The setBandLevel outcomes a call of set_band(idx, ..) can meet
LevelOutcomes(idx) ==
    IF Reaches /\ GlobalEq.eq # "null" /\ idx \in Bands /\ idx < GlobalEq.realBands
    THEN BOOLEAN ELSE {FALSE}

\* band-gain-changed(index, db) delivered to set_band
SetBand ==
    /\ ~uiPanicked
    /\ \E idx \in BandArgs, db \in GainArgs :
        \E lt \in LevelOutcomes(idx) : set_band(idx, db, lt)
    /\ UNCHANGED <<auxVars, GLOBAL_JNI_ENV, JAVA_GLOBALEQ_CLASS, volume_state, dragging,
                   button, lastStart, lastMove, pollerVars>>

\* EqualizerUI: set_volume(db), from the slider's oninput
SetVolume ==
    /\ ~uiPanicked
    /\ \E db \in VolumeArgs :
        LET r == with_jni_env(call_set_global_volume(db))
        IN  /\ volume_state' = db
            /\ GlobalEq' = r.j
            /\ lastOp' = Op("setGlobalVolume", r.res, TRUE, -1, 0)
    /\ UNCHANGED <<auxVars, GLOBAL_JNI_ENV, JAVA_GLOBALEQ_CLASS, band_states, dragging,
                   button, uiPanicked, lastStart, lastMove, pollerVars>>

\* EqualizerUI: do_reset, from the button's onclick
DoReset ==
    /\ ~uiPanicked
    /\ \E failAt \in FailPoints :
        LET r == with_jni_env(call_reset_to_flat(failAt))
        IN  /\ band_states' = Flat
            /\ volume_state' = 0
            /\ GlobalEq' = r.j
            /\ lastOp' = Op("resetToFlat", r.res, failAt = NUM_BANDS, -1, 0)
    /\ UNCHANGED <<auxVars, GLOBAL_JNI_ENV, JAVA_GLOBALEQ_CLASS, dragging, button,
                   uiPanicked, lastStart, lastMove, pollerVars>>

---------------------------------------------------------------------------
(* Rust: FrequencyChart *)

Clamp(x, lo, hi) == IF x < lo THEN lo ELSE IF x > hi THEN hi ELSE x

\* db_to_y: rel = (clamp(db) - min_db) / (max_db - min_db); 200 - rel * 200
db_to_y(db) ==
    CHART_H - ((Clamp(db, min_db, max_db) - min_db) * CHART_H) \div (max_db - min_db)

\* the pixel-to-gain arithmetic with y used as it comes, not clamped
y_to_db_without_clamp(y) ==
    min_db + ((CHART_H - y) * (max_db - min_db)) \div CHART_H

\* the pixel-to-gain arithmetic inlined in on_mouse_move:
\* t = 1 - clamp(y, 0, 200) / 200; db = min_db + t * (max_db - min_db)
y_to_db(y) ==
    min_db + ((CHART_H - Clamp(y, 0, CHART_H)) * (max_db - min_db)) \div CHART_H

\* on_mouse_move without the clamp of the pointer coordinate
on_mouse_move_unclamped(drag, y) ==
    IF drag # {}
    THEN LET idx == CHOOSE i \in drag : TRUE
         IN  <<idx, min_db + ((CHART_H - y) * (max_db - min_db)) \div CHART_H>>
    ELSE <<>>

\* on_mouse_move: the on_change call it makes, <<idx, db>>, or <<>> for none
on_mouse_move(drag, y) ==
    IF drag # {}
    THEN LET idx == CHOOSE i \in drag : TRUE IN <<idx, y_to_db(y)>>
    ELSE <<>>

\* on_mouse_up: the new value of dragging
on_mouse_up(drag) == {}

\* circle onmousedown of marker i
MouseDown ==
    /\ ~uiPanicked
    /\ button = "up"
    /\ \E i \in Markers :
        /\ dragging' = {i}
        /\ lastStart' = i
    /\ button' = "down"
    /\ UNCHANGED <<auxVars, GLOBAL_JNI_ENV, JAVA_GLOBALEQ_CLASS, GlobalEq, band_states,
                   volume_state, uiPanicked, lastMove, lastOp, pollerVars>>

\* svg onmousemove
MouseMove ==
    /\ ~uiPanicked
    /\ \E y \in PointerYs :
        LET cb == on_mouse_move(dragging, y)
        IN  /\ lastMove' = [seen |-> TRUE, y |-> y, target |-> lastStart, cb |-> cb]
            /\ IF cb = <<>>
               THEN UNCHANGED <<band_states, GlobalEq, uiPanicked, lastOp>>
               ELSE \E lt \in LevelOutcomes(cb[1]) : set_band(cb[1], cb[2], lt)
    /\ UNCHANGED <<auxVars, GLOBAL_JNI_ENV, JAVA_GLOBALEQ_CLASS, volume_state, dragging,
                   button, lastStart, pollerVars>>

\* svg onmouseup: the button is released over the chart
MouseUp ==
    /\ ~uiPanicked
    /\ button = "down"
    /\ dragging' = on_mouse_up(dragging)
    /\ button' = "up"
    /\ lastStart' = -1
    /\ UNCHANGED <<auxVars, GLOBAL_JNI_ENV, JAVA_GLOBALEQ_CLASS, GlobalEq, band_states,
                   volume_state, uiPanicked, lastMove, lastOp, pollerVars>>

\* the button is released outside the svg element: no handler of the
\* chart is registered for it
PointerUpOutside ==
    /\ ~uiPanicked
    /\ button = "down"
    /\ button' = "up"
    /\ UNCHANGED <<auxVars, GLOBAL_JNI_ENV, JAVA_GLOBALEQ_CLASS, GlobalEq, band_states,
                   volume_state, dragging, uiPanicked, lastStart, lastMove,
                   lastOp, pollerVars>>

---------------------------------------------------------------------------
(* Rust: f32 arithmetic of the chart's axis conversions.  An f32 is kept   *)
(* as [m, e], the value m * 2^e with 2^23 <= |m| < 2^24, or m = e = 0 for  *)
(* zero; every operation rounds to nearest, ties to even, as IEEE 754      *)
(* binary32 does.  The axis values stay far from overflow and underflow.   *)

F32_MANT == 24

Abs(n) == IF n < 0 THEN -n ELSE n
Sgn(n) == IF n < 0 THEN -1 ELSE IF n > 0 THEN 1 ELSE 0
Max(a, b) == IF a > b THEN a ELSE b

RECURSIVE BitLen(_)
BitLen(n) == IF n = 0 THEN 0 ELSE 1 + BitLen(n \div 2)

\* number of trailing zero bits of n > 0
RECURSIVE TrailZ(_)
TrailZ(n) == IF n % 2 = 1 THEN 0 ELSE 1 + TrailZ(n \div 2)

F32Zero == [m |-> 0, e |-> 0]

\* the f32 nearest to n * 2^e
RoundF32(n, e) ==
    LET a == Abs(n)
        len == BitLen(a)
    IN  IF n = 0 THEN F32Zero
        ELSE IF len <= F32_MANT
        THEN [m |-> n * 2 ^ (F32_MANT - len), e |-> e - (F32_MANT - len)]
        ELSE LET k == len - F32_MANT
                 q == a \div 2 ^ k
                 r == a % 2 ^ k
                 half == 2 ^ (k - 1)
                 up == r > half \/ (r = half /\ q % 2 = 1)
                 q2 == IF up THEN q + 1 ELSE q
             IN  IF q2 = 2 ^ F32_MANT
                 THEN [m |-> Sgn(n) * 2 ^ (F32_MANT - 1), e |-> e + k + 1]
                 ELSE [m |-> Sgn(n) * q2, e |-> e + k]

\* a shifted right by k bits, the lost bits kept as a sticky lowest bit
ShiftRightSticky(a, k) ==
    IF k >= 30 THEN (IF a # 0 THEN 1 ELSE 0)
    ELSE LET q == a \div 2 ^ k
         IN  IF a % 2 ^ k # 0 /\ q % 2 = 0 THEN q + 1 ELSE q

\* x + y: both aligned three bits below the larger exponent, then rounded
F32Add(x, y) ==
    IF x.m = 0 THEN y
    ELSE IF y.m = 0 THEN x
    ELSE LET E == Max(x.e, y.e) - 3
             Al(v) == IF v.e >= E THEN v.m * 2 ^ (v.e - E)
                      ELSE Sgn(v.m) * ShiftRightSticky(Abs(v.m), E - v.e)
         IN  RoundF32(Al(x) + Al(y), E)

F32Neg(x) == [m |-> -x.m, e |-> x.e]
F32Sub(x, y) == F32Add(x, F32Neg(y))
F32Leq(x, y) == F32Sub(x, y).m <= 0

\* x * y for a y whose odd part has at most 7 bits (48.0, 200.0)
F32Mul(x, y) ==
    IF x.m = 0 \/ y.m = 0 THEN F32Zero
    ELSE LET tz == TrailZ(Abs(y.m))
         IN  RoundF32(x.m * (y.m \div 2 ^ tz), x.e + y.e + tz)

\* x / y for a y whose odd part is at most 32 (48.0, 200.0, 10.0): the
\* quotient to 25 bits or more and a sticky bit for the remainder
F32Div(x, y) ==
    IF x.m = 0 THEN F32Zero
    ELSE LET tz == TrailZ(Abs(y.m))
             k == Abs(y.m) \div 2 ^ tz
             n == Abs(x.m) * 2 ^ 6
             q == 2 * (n \div k) + (IF n % k # 0 THEN 1 ELSE 0)
         IN  RoundF32(Sgn(x.m) * Sgn(y.m) * q, x.e - 7 - (y.e + tz))

\* an integer literal as f32
F32(n) == RoundF32(n, 0)

\* f32::clamp
F32Clamp(x, lo, hi) == IF ~F32Leq(lo, x) THEN lo ELSE IF ~F32Leq(x, hi) THEN hi ELSE x

\* let min_db = -24.0; let max_db = 24.0, as f32
min_db_f32 == F32(min_db \div 100)
max_db_f32 == F32(max_db \div 100)

\* db_to_y in f32
db_to_y_f32(db) ==
    LET rel == F32Div(F32Sub(F32Clamp(db, min_db_f32, max_db_f32), min_db_f32),
                      F32Sub(max_db_f32, min_db_f32))
    IN  F32Sub(F32(CHART_H), F32Mul(rel, F32(CHART_H)))

\* y_to_db with the axis upside down: t = clamped_y / 200
y_to_db_f32_inverted(y) ==
    LET clamped_y == F32Clamp(y, F32(0), F32(CHART_H))
        t == F32Div(clamped_y, F32(CHART_H))
    IN  F32Add(min_db_f32, F32Mul(t, F32Sub(max_db_f32, min_db_f32)))

\* the pixel-to-gain arithmetic of on_mouse_move in f32
y_to_db_f32(y) ==
    LET clamped_y == F32Clamp(y, F32(0), F32(CHART_H))
        t == F32Sub(F32(1), F32Div(clamped_y, F32(CHART_H)))
    IN  F32Add(min_db_f32, F32Mul(t, F32Sub(max_db_f32, min_db_f32)))

\* The gains the conversions are applied to: every multiple of 0.01 dB up
\* to MaxCentidb on either side of 0, as the nearest f32
AxisInputs == {F32Div(F32(n), F32(100)) : n \in -MaxCentidb .. MaxCentidb}

\* no conversion under way
AxisOff == [stage |-> "off", db |-> F32Zero, y |-> F32Zero, back |-> F32Zero]

\* db_to_y(db) for the gain drawn
AxisDbToY ==
    /\ axis.stage = "db"
    /\ axis' = [axis EXCEPT !.stage = "y", !.y = db_to_y_f32(axis.db)]
    /\ UNCHANGED <<progVars, race>>

\* the inline yToDb of on_mouse_move for that y
AxisYToDb ==
    /\ axis.stage = "y"
    /\ axis' = [axis EXCEPT !.stage = "back", !.back = y_to_db_f32(axis.y)]
    /\ UNCHANGED <<progVars, race>>

---------------------------------------------------------------------------
(* Rust: the poller use_effect *)

Threads == 1 .. MaxGen

\* the teardown closure of thread g has returned
TornDown(g) == g < gen \/ (g = gen /\ view = "idle")

\* the use_effect body run again while the thread of the previous run is
\* still in its loop, its teardown closure never called
EffectStart_without_teardown ==
    /\ view \in {"idle", "running"}
    /\ gen < MaxGen
    /\ gen' = gen + 1
    /\ thPc' = [thPc EXCEPT ![gen + 1] = "check"]
    /\ running' = [running EXCEPT ![gen + 1] = TRUE]
    /\ view' = "running"
    /\ UNCHANGED <<auxVars, GLOBAL_JNI_ENV, JAVA_GLOBALEQ_CLASS, GlobalEq, uiVars,
                   spectro_data, pollRes, stopAt, afterStop, latePublish, pending, outOfOrder,
                   lastOp>>

\* use_effect body: thread::spawn with a fresh running flag
EffectStart ==
    /\ view = "idle"
    /\ gen < MaxGen
    /\ gen' = gen + 1
    /\ thPc' = [thPc EXCEPT ![gen + 1] = "check"]
    /\ running' = [running EXCEPT ![gen + 1] = TRUE]
    /\ view' = "running"
    /\ UNCHANGED <<auxVars, GLOBAL_JNI_ENV, JAVA_GLOBALEQ_CLASS, GlobalEq, uiVars,
                   spectro_data, pollRes, stopAt, afterStop, latePublish, pending, outOfOrder, lastOp>>

\* the loop test without the load of the flag: while true
ThreadCheck_ignores_flag(g) ==
    /\ thPc[g] = "check"
    /\ thPc' = [thPc EXCEPT ![g] = "poll"]
    /\ pending' = Append(pending, g)
    /\ UNCHANGED <<auxVars, GLOBAL_JNI_ENV, JAVA_GLOBALEQ_CLASS, GlobalEq, uiVars, view,
                   gen, running, pollRes, stopAt, afterStop, latePublish, outOfOrder,
                   spectro_data, lastOp>>

\* while run_clone.load(SeqCst)
ThreadCheck(g) ==
    /\ thPc[g] = "check"
    /\ thPc' = [thPc EXCEPT ![g] = IF running[g] THEN "poll" ELSE "done"]
    /\ pending' = IF running[g] THEN Append(pending, g) ELSE pending
    /\ UNCHANGED <<auxVars, GLOBAL_JNI_ENV, JAVA_GLOBALEQ_CLASS, GlobalEq, uiVars, view,
                   gen, running, pollRes, stopAt, afterStop, latePublish, outOfOrder,
                   spectro_data, lastOp>>

\* history: what the foreign engine holds when a getFftData call is made
\* with capture outcome cap: "absent" when the call does not reach Java
EngineHas(cap) ==
    IF ~Reaches THEN "absent"
    ELSE IF GlobalEq.visualizer = "null" THEN "noAnalyzer"
    ELSE IF cap.kind = "throws" THEN "threw"
    ELSE IF cap.kind = "null" THEN "nullCapture"
    ELSE IF Len(cap.bytes) < 2 THEN "shortCapture"
    ELSE "data"

\* with_jni_env(|env| call_get_fft_data(env))
ThreadPoll(g) ==
    /\ thPc[g] = "poll"
    /\ \E cap \in FftOutcomes, marshalOk \in BOOLEAN :
        LET r == with_jni_env(call_get_fft_data(cap, marshalOk))
        IN  pollRes' = [pollRes EXCEPT ![g] =
                          [res |-> r.res, ret |-> r.ret, engine |-> EngineHas(cap)]]
    /\ thPc' = [thPc EXCEPT ![g] = "publish"]
    /\ afterStop' = IF running[g] THEN afterStop
                    ELSE [afterStop EXCEPT ![g].polls = @ + 1]
    /\ UNCHANGED <<auxVars, GLOBAL_JNI_ENV, JAVA_GLOBALEQ_CLASS, GlobalEq, uiVars, view,
                   gen, running, stopAt, latePublish, pending, outOfOrder, spectro_data, lastOp>>

\* publish without the Ok test: an error publishes its empty payload
publish_always(result, frame) == result.ret

\* if let Ok(data) = .. { sp.set(data) }: the frame published, or the
\* frame kept
publish(result, frame) == IF result.res = "Ok" THEN result.ret ELSE frame

ThreadPublish(g) ==
    /\ thPc[g] = "publish"
    /\ spectro_data' = publish(pollRes[g], spectro_data)
    /\ latePublish' = (latePublish \/ (pollRes[g].res = "Ok" /\ TornDown(g)))
    /\ outOfOrder' = (outOfOrder \/ (pollRes[g].res = "Ok" /\ Head(pending) # g))
    /\ pending' = SelectSeq(pending, LAMBDA h : h # g)
    /\ afterStop' = IF running[g] \/ pollRes[g].res # "Ok" THEN afterStop
                    ELSE [afterStop EXCEPT ![g].pubs = @ + 1]
    /\ thPc' = [thPc EXCEPT ![g] = "sleep"]
    /\ UNCHANGED <<auxVars, GLOBAL_JNI_ENV, JAVA_GLOBALEQ_CLASS, GlobalEq, uiVars, view,
                   gen, running, pollRes, stopAt, lastOp>>

\* thread::sleep(100 ms)
ThreadSleep(g) ==
    /\ thPc[g] = "sleep"
    /\ thPc' = [thPc EXCEPT ![g] = "check"]
    /\ UNCHANGED <<auxVars, GLOBAL_JNI_ENV, JAVA_GLOBALEQ_CLASS, GlobalEq, uiVars, view,
                   gen, running, pollRes, stopAt, afterStop, latePublish, pending, outOfOrder, spectro_data,
                   lastOp>>

\* teardown closure: running.store(false, SeqCst)
TeardownStore ==
    /\ view = "running"
    /\ running' = [running EXCEPT ![gen] = FALSE]
    /\ stopAt' = [stopAt EXCEPT ![gen] = thPc[gen]]
    /\ view' = "stopping"
    /\ UNCHANGED <<auxVars, GLOBAL_JNI_ENV, JAVA_GLOBALEQ_CLASS, GlobalEq, uiVars, gen,
                   thPc, pollRes, latePublish, afterStop, pending, outOfOrder, spectro_data, lastOp>>

\* a join that does not wait for the thread
join_returns_early(pc) == TRUE

\* handle.join() returns once the thread has finished
join_returns(pc) == pc = "done"

\* teardown closure: let _ = handle.join()
TeardownJoin ==
    /\ view = "stopping"
    /\ join_returns(thPc[gen])
    /\ view' = "idle"
    /\ UNCHANGED <<auxVars, GLOBAL_JNI_ENV, JAVA_GLOBALEQ_CLASS, GlobalEq, uiVars, gen,
                   thPc, running, pollRes, stopAt, afterStop, latePublish, pending, outOfOrder, spectro_data,
                   lastOp>>

---------------------------------------------------------------------------
(* Java at statement level: initGlobalEq on the UI thread, statement by    *)
(* statement, against getFftData on the poller thread.  The methods are    *)
(* static and unsynchronized and with_jni_env takes no lock.  A field      *)
(* that is "obj" while its count of unreleased objects is 0 refers to a    *)
(* released object.  race.uiPc is the statement the UI thread is at,       *)
(* race.fftPc the statement the poller thread is at, race.hazards the      *)
(* accesses made through a null or a released reference.                   *)

RaceIdle == [uiPc |-> "idle", fftPc |-> "idle", hazards |-> {}]

raceFrame == <<GLOBAL_JNI_ENV, JAVA_GLOBALEQ_CLASS, lastOp, uiVars, pollerVars, axis>>

\* what a use of reference ref with alive unreleased objects adds to hazards
Deref(who, ref, alive) ==
    IF ref = "null" THEN {<<who, "null">>}
    ELSE IF alive = 0 THEN {<<who, "released">>}
    ELSE {}

\* the UI thread enters initGlobalEq, setBandGain or resetToFlat
UiCall ==
    /\ Reaches
    /\ race.uiPc = "idle"
    /\ \E m \in {"eqTest", "sbTest", "rtTest"} : race' = [race EXCEPT !.uiPc = m]
    /\ UNCHANGED <<GlobalEq, raceFrame>>

\* if (eq != null)
InitEqTest ==
    /\ race.uiPc = "eqTest"
    /\ race' = [race EXCEPT !.uiPc = IF GlobalEq.eq # "null" THEN "eqRelease"
                                     ELSE "eqNew"]
    /\ UNCHANGED <<GlobalEq, raceFrame>>

\* the first try block without the call of eq.release()
InitEqRelease_left_out ==
    /\ race.uiPc = "eqRelease"
    /\ race' = [race EXCEPT !.uiPc = "eqNull"]
    /\ UNCHANGED <<GlobalEq, raceFrame>>

\* eq.release(), which may throw into the catch block
InitEqRelease ==
    /\ race.uiPc = "eqRelease"
    /\ \E throws \in BOOLEAN :
        IF throws
        THEN /\ race' = [race EXCEPT !.uiPc = "mirror"]
             /\ UNCHANGED GlobalEq
        ELSE /\ race' = [race EXCEPT !.uiPc = "eqNull"]
             /\ GlobalEq' = [GlobalEq EXCEPT !.eqAlive = @ - 1, !.eqEnabled = FALSE]
    /\ UNCHANGED raceFrame

\* eq = null
InitEqNull ==
    /\ race.uiPc = "eqNull"
    /\ GlobalEq' = [GlobalEq EXCEPT !.eq = "null", !.realBands = 0, !.eqLevel = Flat]
    /\ race' = [race EXCEPT !.uiPc = "eqNew"]
    /\ UNCHANGED raceFrame

\* eq = new Equalizer(0, 0)
InitEqNew ==
    /\ race.uiPc = "eqNew"
    /\ \E throws \in BOOLEAN, rb \in RealBandsSet :
        IF throws
        THEN /\ race' = [race EXCEPT !.uiPc = "mirror"]
             /\ UNCHANGED GlobalEq
        ELSE /\ race' = [race EXCEPT !.uiPc = "eqEnable"]
             /\ GlobalEq' = [GlobalEq EXCEPT !.eq = "obj", !.eqAlive = @ + 1,
                                             !.realBands = rb]
    /\ UNCHANGED raceFrame

\* eq.setEnabled(true)
InitEqEnable ==
    /\ race.uiPc = "eqEnable"
    /\ \E throws \in BOOLEAN : GlobalEq' = [GlobalEq EXCEPT !.eqEnabled = ~throws]
    /\ race' = [race EXCEPT !.uiPc = "mirror"]
    /\ UNCHANGED raceFrame

\* the reset of bandGains and globalVol between the try blocks
InitMirrorReset ==
    /\ race.uiPc = "mirror"
    /\ GlobalEq' = initMirror([GlobalEq EXCEPT !.bandCalls = {}])
    /\ race' = [race EXCEPT !.uiPc = "visTest"]
    /\ UNCHANGED raceFrame

\* if (visualizer != null)
InitVisTest ==
    /\ race.uiPc = "visTest"
    /\ race' = [race EXCEPT !.uiPc = IF GlobalEq.visualizer # "null"
                                     THEN "visRelease" ELSE "visNew"]
    /\ UNCHANGED <<GlobalEq, raceFrame>>

\* visualizer.release()
InitVisRelease ==
    /\ race.uiPc = "visRelease"
    /\ \E throws \in BOOLEAN :
        IF throws
        THEN /\ race' = [race EXCEPT !.uiPc = "idle"]
             /\ UNCHANGED GlobalEq
        ELSE /\ race' = [race EXCEPT !.uiPc = "visNull"]
             /\ GlobalEq' = [GlobalEq EXCEPT !.visAlive = @ - 1, !.visEnabled = FALSE]
    /\ UNCHANGED raceFrame

\* visualizer = null
InitVisNull ==
    /\ race.uiPc = "visNull"
    /\ GlobalEq' = [GlobalEq EXCEPT !.visualizer = "null"]
    /\ race' = [race EXCEPT !.uiPc = "visNew"]
    /\ UNCHANGED raceFrame

\* visualizer = new Visualizer(0)
InitVisNew ==
    /\ race.uiPc = "visNew"
    /\ \E throws \in BOOLEAN :
        IF throws
        THEN /\ race' = [race EXCEPT !.uiPc = "idle"]
             /\ UNCHANGED GlobalEq
        ELSE /\ race' = [race EXCEPT !.uiPc = "visSetup"]
             /\ GlobalEq' = [GlobalEq EXCEPT !.visualizer = "obj", !.visAlive = @ + 1]
    /\ UNCHANGED raceFrame

\* getCaptureSizeRange, setCaptureSize, setEnabled(true); initGlobalEq returns
InitVisSetup ==
    /\ race.uiPc = "visSetup"
    /\ \E throws \in BOOLEAN : GlobalEq' = [GlobalEq EXCEPT !.visEnabled = ~throws]
    /\ race' = [race EXCEPT !.uiPc = "idle"]
    /\ UNCHANGED raceFrame

\* setBandGain and resetToFlat on the UI thread: if (eq == null) return
UiEqTest ==
    /\ race.uiPc \in {"sbTest", "rtTest"}
    /\ race' = [race EXCEPT !.uiPc =
                   IF GlobalEq.eq = "null" THEN "idle"
                   ELSE IF race.uiPc = "sbTest" THEN "sbUse" ELSE "rtUse"]
    /\ UNCHANGED <<GlobalEq, raceFrame>>

\* setBandGain after its test: bandGains[idx] = gainDb, eq.getNumberOfBands(),
\* eq.setBandLevel(..)
UiSetBandGainUse ==
    /\ race.uiPc = "sbUse"
    /\ \E idx \in Markers, db \in GainArgs, lt \in BOOLEAN :
        GlobalEq' = setBandGain(GlobalEq, idx, db, lt).j
    /\ race' = [race EXCEPT !.uiPc = "idle",
                            !.hazards = @ \cup Deref("setBandGain", GlobalEq.eq,
                                                     GlobalEq.eqAlive)]
    /\ UNCHANGED raceFrame

\* resetToFlat after its test: eq.getNumberOfBands() and the loop of
\* eq.setBandLevel(i, 0)
UiResetToFlatUse ==
    /\ race.uiPc = "rtUse"
    /\ \E failAt \in {0, NUM_BANDS} : GlobalEq' = resetToFlat(GlobalEq, failAt).j
    /\ race' = [race EXCEPT !.uiPc = "idle",
                            !.hazards = @ \cup Deref("resetToFlat", GlobalEq.eq,
                                                     GlobalEq.eqAlive)]
    /\ UNCHANGED raceFrame

\* the poller thread enters getFftData
FftCall ==
    /\ Reaches
    /\ race.fftPc = "idle"
    /\ race' = [race EXCEPT !.fftPc = "test"]
    /\ UNCHANGED <<GlobalEq, raceFrame>>

\* if (visualizer == null) return new float[0]
FftTest ==
    /\ race.fftPc = "test"
    /\ race' = [race EXCEPT !.fftPc = IF GlobalEq.visualizer = "null" THEN "idle"
                                      ELSE "getFft"]
    /\ UNCHANGED <<GlobalEq, raceFrame>>

\* visualizer.getFft(): the field is read again and the object used
FftGetFft ==
    /\ race.fftPc = "getFft"
    /\ race' = [race EXCEPT !.fftPc = "idle",
                            !.hazards = @ \cup Deref("getFftData", GlobalEq.visualizer,
                                                     GlobalEq.visAlive)]
    /\ UNCHANGED <<GlobalEq, raceFrame>>

---------------------------------------------------------------------------
Init == InitProgram /\ axis = AxisOff /\ race = RaceIdle

Next ==
    \/ StoreJNIEnv
    \/ InstallJavaSourceAndInit
    \/ Initialize
    \/ SetBand
    \/ SetVolume
    \/ DoReset
    \/ MouseDown
    \/ MouseMove
    \/ MouseUp
    \/ PointerUpOutside
    \/ EffectStart
    \/ \E g \in Threads : ThreadCheck(g)
    \/ \E g \in Threads : ThreadPoll(g)
    \/ \E g \in Threads : ThreadPublish(g)
    \/ \E g \in Threads : ThreadSleep(g)
    \/ TeardownStore
    \/ TeardownJoin

Spec == Init /\ [][Next]_vars

\* The three parts below share only GLOBAL_JNI_ENV, JAVA_GLOBALEQ_CLASS and
\* GlobalEq: the control closures leave the poller's and the chart's
\* variables unchanged, the poller only reads GlobalEq, and the chart reaches
\* GlobalEq through set_band alone.  Each part is also checked on its own.

\* The control surface alone: bridge installation and the control closures
NextControl ==
    \/ StoreJNIEnv
    \/ InstallJavaSourceAndInit
    \/ Initialize
    \/ SetBand
    \/ SetVolume
    \/ DoReset

SpecControl == Init /\ [][NextControl]_vars

\* The poller alone, with the bridge installation it depends on
NextPoller ==
    \/ StoreJNIEnv
    \/ InstallJavaSourceAndInit
    \/ EffectStart
    \/ \E g \in Threads : ThreadCheck(g)
    \/ \E g \in Threads : ThreadPoll(g)
    \/ \E g \in Threads : ThreadPublish(g)
    \/ \E g \in Threads : ThreadSleep(g)
    \/ TeardownStore
    \/ TeardownJoin

SpecPoller == Init /\ [][NextPoller]_vars

\* The poller under fair scheduling: a spawned thread keeps taking steps,
\* its getFftData call and its sleep return, and a teardown closure that
\* has reached handle.join() returns once the thread has finished
SpecPollerFair ==
    /\ SpecPoller
    /\ \A g \in Threads :
        /\ WF_vars(ThreadCheck(g))
        /\ WF_vars(ThreadPoll(g))
        /\ WF_vars(ThreadPublish(g))
        /\ WF_vars(ThreadSleep(g))
    /\ WF_vars(TeardownJoin)

\* The chart's drag handlers alone, with the bridge installation
NextDrag ==
    \/ StoreJNIEnv
    \/ InstallJavaSourceAndInit
    \/ MouseDown
    \/ MouseMove
    \/ MouseUp
    \/ PointerUpOutside

SpecDrag == Init /\ [][NextDrag]_vars

\* The chart's drag handlers together with the reset button
NextGesture ==
    \/ StoreJNIEnv
    \/ InstallJavaSourceAndInit
    \/ MouseDown
    \/ MouseMove
    \/ MouseUp
    \/ PointerUpOutside
    \/ DoReset

SpecGesture == Init /\ [][NextGesture]_vars

\* The axis conversions as pure functions: a gain is drawn, db_to_y is
\* applied to it and the inline yToDb of on_mouse_move to the result
InitAxis ==
    /\ InitProgram
    /\ race = RaceIdle
    /\ \E d \in AxisInputs : axis = [AxisOff EXCEPT !.stage = "db", !.db = d]

NextAxis ==
    \/ AxisDbToY
    \/ AxisYToDb

SpecAxis == InitAxis /\ [][NextAxis]_vars

\* initGlobalEq, setBandGain and resetToFlat on the UI thread against
\* getFftData on the poller thread, statement by statement
NextRace ==
    \/ StoreJNIEnv
    \/ InstallJavaSourceAndInit
    \/ UiCall
    \/ InitEqTest
    \/ InitEqRelease
    \/ InitEqNull
    \/ InitEqNew
    \/ InitEqEnable
    \/ InitMirrorReset
    \/ InitVisTest
    \/ InitVisRelease
    \/ InitVisNull
    \/ InitVisNew
    \/ InitVisSetup
    \/ UiEqTest
    \/ UiSetBandGainUse
    \/ UiResetToFlatUse
    \/ FftCall
    \/ FftTest
    \/ FftGetFft

SpecRace == Init /\ [][NextRace]_vars

---------------------------------------------------------------------------
(* Properties *)

\* C1: no frame is published to the subscriber after the teardown closure
\* has returned: every thread whose teardown has returned has left its loop,
\* and no sp.set ever ran for a thread already torn down.
PollerNoPublishAfterTeardown ==
    /\ ~latePublish
    /\ \A g \in Threads : TornDown(g) => thPc[g] = "done"

\* C1 witness: teardown cleared the flag while a successful poll was in
\* flight, that frame was published, and teardown has since returned.
C1_TeardownDuringPoll ==
    /\ gen >= 1
    /\ view = "idle"
    /\ stopAt[gen] = "publish"
    /\ pollRes[gen].res = "Ok"
    /\ spectro_data = pollRes[gen].ret

\* C2 (as claimed): a control action whose bridge call returns an error,
\* the handle-absent error included, leaves BandState, VolumeState and the
\* spectral frame as they were.
FailedCallKeepsLocalState ==
    [][(lastOp' # lastOp /\ lastOp'.res \in ErrorKinds) =>
          (/\ band_states' = band_states
           /\ volume_state' = volume_state
           /\ spectro_data' = spectro_data)]_vars

\* C3 (as claimed): a bridge call fails for lack of a handle exactly when
\* storeJNIEnv has not stored the handle yet.
HandleAbsentIffNotInstalled ==
    [][(lastOp' # lastOp /\ lastOp'.op # "install" /\ lastOp'.res # "Panic") =>
          ((lastOp'.res \in AbsentKinds) <=> ~GLOBAL_JNI_ENV)]_vars

\* C4 (as claimed): after a resetToFlat whose bridge call returned Ok, all
\* band gains and the volume are 0, locally and in the GlobalEq mirror.
ResetYieldsFlatEverywhere ==
    (lastOp.op = "resetToFlat" /\ lastOp.res = "Ok") =>
        /\ band_states = Flat
        /\ volume_state = 0
        /\ GlobalEq.bandGains = Flat
        /\ GlobalEq.globalVol = 0

\* C5 (as claimed): a band change with an index outside [0, NUM_BANDS)
\* changes no gain, hands nothing to the equalizer and does not abort.
OutOfRangeBandIgnored ==
    [][(lastOp' # lastOp /\ lastOp'.op = "setBandGain" /\ lastOp'.idx \notin Bands) =>
          (/\ band_states' = band_states
           /\ GlobalEq'.bandGains = GlobalEq.bandGains
           /\ GlobalEq'.eqLevel = GlobalEq.eqLevel
           /\ GlobalEq'.bandCalls = {}
           /\ ~uiPanicked')]_vars

\* C6 (as claimed): whenever the pointer button is up, wherever it was
\* released, there is no drag target.
PointerUpClearsTarget ==
    button = "up" => dragging = {}

\* C7: a pointer-move calls on_change exactly when a drag-start has not been
\* followed by a drag-end, with that drag-start's index and the gain whose
\* chart position is the pointer's clamped y (y = 100 gives 0 dB).
DragProtocol ==
    lastMove.seen =>
        IF lastMove.target >= 0
        THEN /\ Len(lastMove.cb) = 2
             /\ lastMove.cb[1] = lastMove.target
             /\ lastMove.cb[2] >= min_db
             /\ lastMove.cb[2] <= max_db
             /\ db_to_y(lastMove.cb[2]) = Clamp(lastMove.y, 0, CHART_H)
             /\ (lastMove.y = 100 => lastMove.cb[2] = 0)
        ELSE lastMove.cb = <<>>

\* C7 witness: drag-start(2) then drag-move(100) has called on_change(2, 0)
\* and the call reached the mirror.
C7_DragMoveMidpoint ==
    /\ lastMove.seen
    /\ lastMove.y = 100
    /\ lastMove.cb = <<2, 0>>
    /\ lastOp.op = "setBandGain"
    /\ lastOp.res = "Ok"

\* C8 (as claimed): a resetToFlat leaves the mirrored gains and volume
\* either all reset or all as they were.
ResetAllOrNothing ==
    [][(lastOp' # lastOp /\ lastOp'.op = "resetToFlat") =>
          \/ GlobalEq'.bandGains = Flat /\ GlobalEq'.globalVol = 0
          \/ /\ GlobalEq'.bandGains = GlobalEq.bandGains
             /\ GlobalEq'.globalVol = GlobalEq.globalVol]_vars

\* C9: an iteration whose getFftData returned an error publishes nothing and
\* goes on to its sleep, and a poller thread leaves its loop only when its
\* running flag has been cleared.
PollerSkipsOnError ==
    /\ [](\A g \in Threads : thPc[g] = "done" => ~running[g])
    /\ [][\A g \in Threads :
            (/\ thPc[g] = "publish"
             /\ thPc'[g] # "publish"
             /\ pollRes[g].res \in ErrorKinds) =>
                (spectro_data' = spectro_data /\ thPc'[g] = "sleep")]_vars

\* C9 witness: after a frame was published, a poll failed in the foreign
\* call, the iteration has passed its publish step and the frame is kept.
C9_ErrorAfterFrame ==
    \E g \in Threads :
        /\ thPc[g] = "sleep"
        /\ running[g]
        /\ pollRes[g].res = "CallFail"
        /\ spectro_data = Frame(2, {<<1, 5>>})

NoDataIsEmptySuccess ==
    \A g \in Threads :
        /\ (/\ pollRes[g].engine \in {"noAnalyzer", "nullCapture", "shortCapture"}
            /\ pollRes[g].res # "MarshalFail") =>
               (pollRes[g].res = "Ok" /\ pollRes[g].ret = EmptyFrame)
        /\ pollRes[g].res \in ErrorKinds =>
               (\/ pollRes[g].engine \in {"absent", "threw"}
                \/ pollRes[g].res = "MarshalFail")

\* C11 witness: the analyzer exists, its capture came back null, the poll
\* returned Ok with the empty sequence and that frame was published.
C11_NullCapturePublished ==
    \E g \in Threads :
        /\ pollRes[g].engine = "nullCapture"
        /\ pollRes[g].res = "Ok"
        /\ thPc[g] = "sleep"
        /\ spectro_data = EmptyFrame

\* C12: a setBandGain(i, v) with 0 <= i < 8 makes BandState[i] = v and
\* leaves every other band gain and the volume as they were; when the call
\* reaches an initialized engine the mirror changes in the same way:
\* bandGains[i] = v, every other mirrored gain and globalVol unchanged.
SetBandGainFrame ==
    [][(/\ lastOp' # lastOp
        /\ lastOp'.op = "setBandGain"
        /\ lastOp'.idx \in Bands) =>
          (/\ band_states' = [band_states EXCEPT ![lastOp'.idx] = lastOp'.arg]
           /\ volume_state' = volume_state
           /\ (Reaches /\ GlobalEq.eq # "null") =>
                 (/\ lastOp'.res = "Ok"
                  /\ GlobalEq'.bandGains =
                        [GlobalEq.bandGains EXCEPT ![lastOp'.idx] = lastOp'.arg]
                  /\ GlobalEq'.globalVol = GlobalEq.globalVol))]_vars

\* C12 witness: after install and initialize, the first gain change is
\* setBandGain(2, 24 dB): band 2 holds it locally and in the mirror, every
\* other band is 0 dB and the volume is 0 dB.
C12_FirstGainChange ==
    /\ Reaches
    /\ GlobalEq.eq # "null"
    /\ lastOp.op = "setBandGain"
    /\ lastOp.res = "Ok"
    /\ lastOp.idx = 2
    /\ lastOp.arg = 2400
    /\ band_states = [Flat EXCEPT ![2] = 2400]
    /\ GlobalEq.bandGains = [Flat EXCEPT ![2] = 2400]
    /\ volume_state = 0
    /\ GlobalEq.globalVol = 0

\* the tolerance of the round trip: 2^-16 dB
AxisTolerance == RoundF32(1, -16)

\* C13 (as claimed): for every db in [-24, 24], yToDb(dbToY(db)) = db; for db
\* below -24 the composition yields -24 and for db above 24 it yields 24.
AxisRoundTripExact ==
    axis.stage = "back" => axis.back = F32Clamp(axis.db, min_db_f32, max_db_f32)

\* C13 (amended): for every db in [-24, 24], yToDb(dbToY(db)) lies in
\* [-24, 24] and differs from db by at most 2^-16 dB, the rounding of the
\* f32 operations; for db at or below -24 the composition yields exactly
\* -24 and for db at or above 24 exactly 24.
AxisRoundTripWithinTolerance ==
    axis.stage = "back" =>
        LET c == F32Clamp(axis.db, min_db_f32, max_db_f32)
            diff == F32Sub(axis.back, c)
        IN  /\ F32Leq(min_db_f32, axis.back)
            /\ F32Leq(axis.back, max_db_f32)
            /\ F32Leq(diff, AxisTolerance)
            /\ F32Leq(F32Neg(diff), AxisTolerance)
            /\ (F32Leq(axis.db, min_db_f32) \/ F32Leq(max_db_f32, axis.db)) =>
                  axis.back = c

\* C13 witness: the round trip of 7 dB has been computed and gives a gain
\* that is not 7 dB but within the tolerance of it.
C13_SevenDbInexact ==
    /\ axis.stage = "back"
    /\ axis.db = F32(7)
    /\ axis.back # axis.db
    /\ F32Leq(F32Sub(axis.db, axis.back), AxisTolerance)
    /\ F32Leq(F32Sub(axis.back, axis.db), AxisTolerance)

\* the poller threads that have been spawned and have not left their loop
AliveThreads == {g \in Threads : thPc[g] \in {"check", "poll", "publish", "sleep"}}

\* C14: across any activations and teardowns at most one poller thread is
\* alive, at most one getFftData poll of a poller is in flight, at most one
\* poll result awaits its publish, and no frame is published while an
\* older poll is still pending: frames reach the subscriber in poll order.
PollerSequential ==
    /\ Cardinality(AliveThreads) <= 1
    /\ Cardinality({g \in Threads : thPc[g] = "poll"}) <= 1
    /\ Len(pending) <= 1
    /\ ~outOfOrder

\* C14 witness: a second activation follows the teardown of the first; each
\* thread polled a frame, and the subscriber holds the second thread's
\* frame, which differs from the first's.
C14_TwoActivationsInOrder ==
    /\ gen = 2
    /\ thPc[1] = "done"
    /\ pollRes[1].res = "Ok"
    /\ pollRes[2].res = "Ok"
    /\ thPc[2] = "sleep"
    /\ pollRes[1].ret # pollRes[2].ret
    /\ spectro_data = pollRes[2].ret

\* C15: once the flag of a thread is cleared the thread finishes at most
\* the iteration it is in: it makes at most one further poll and one
\* further publish and its next loop test leaves the loop; under fair
\* scheduling and returning foreign calls the thread then exits and the
\* join of the teardown closure returns.
CancellationBoundedAndLive ==
    /\ [](\A g \in Threads : afterStop[g].polls <= 1 /\ afterStop[g].pubs <= 1)
    /\ \A g \in Threads :
         (thPc[g] # "unspawned" /\ ~running[g]) ~> (thPc[g] = "done")
    /\ (view = "stopping") ~> (view = "idle")

\* C15 witness: the flag was cleared while the thread was about to poll;
\* the thread made that one poll and published its frame, then left the
\* loop, and the join has returned.
C15_OneMoreIteration ==
    \E g \in Threads :
        /\ stopAt[g] = "poll"
        /\ afterStop[g] = [polls |-> 1, pubs |-> 1]
        /\ thPc[g] = "done"
        /\ TornDown(g)

\* C16 (as claimed): under every interleaving of initialize with a
\* getFftData of the poller thread or a setBandGain or resetToFlat of the UI
\* thread, no call uses a null analyzer or equalizer reference or an object
\* that initialize has released.
NoUseOfNullOrReleased == race.hazards = {}

\* C17: whatever initialize calls have run, failed releases and failed
\* constructions included, at most one unreleased equalizer and at most
\* one unreleased analyzer exist, an unreleased object is always the one
\* its field refers to, and an object is created only when no unreleased
\* object of its kind exists: the previous one was released first.
AtMostOneEffectObject ==
    /\ [](/\ GlobalEq.eqAlive <= 1
          /\ GlobalEq.visAlive <= 1
          /\ (GlobalEq.eq = "null" => GlobalEq.eqAlive = 0)
          /\ (GlobalEq.visualizer = "null" => GlobalEq.visAlive = 0))
    /\ [][/\ (GlobalEq'.eqAlive > GlobalEq.eqAlive => GlobalEq.eqAlive = 0)
          /\ (GlobalEq'.visAlive > GlobalEq.visAlive => GlobalEq.visAlive = 0)]_vars

\* C17 witness: the installation created both objects; a later initialize
\* has released the equalizer and created its replacement, and the one
\* analyzer of the installation is still unreleased.
C17_EqualizerReplaced ==
    /\ lastOp.op = "install"
    /\ lastOp.res = "Ok"
    /\ lastOp.clean
    /\ race.uiPc = "eqEnable"
    /\ GlobalEq.eqAlive = 1
    /\ GlobalEq.visAlive = 1

\* the mirror the engine keeps equals the state the UI layer holds
MirrorEqualsLocal ==
    /\ GlobalEq.bandGains = band_states
    /\ GlobalEq.globalVol = volume_state

\* C18 (as claimed): after any sequence of initialize, setBandGain,
\* setGlobalVolume and resetToFlat in which every bridge call returned
\* success, the engine's bandGains and globalVol equal the local BandState
\* and VolumeState.
MirrorConsistency ==
    (lastOp.op # "none" /\ lastOp.allOk /\ ~uiPanicked) => MirrorEqualsLocal

\* C19: in every state reached by drag gestures, with the pointer inside,
\* above or below the chart, and resets, each of the 8 band gains lies in
\* [min_db, max_db] = [-24 dB, 24 dB].
BandStateInDomain ==
    \A i \in Bands : min_db <= band_states[i] /\ band_states[i] <= max_db

\* C19 witness: one band was dragged above the chart and another below it;
\* the first holds exactly 24 dB and the second exactly -24 dB.
C19_DraggedOutsideChart ==
    /\ lastMove.seen
    /\ lastMove.y > CHART_H
    /\ lastMove.cb # <<>>
    /\ band_states[lastMove.cb[1]] = min_db
    /\ \E i \in Bands : band_states[i] = max_db

\* the band indices the equalizer of the device supports
SupportedBands == 0 .. (Min(NUM_BANDS, GlobalEq.realBands) - 1)

\* C20: a band-level call is only ever issued with an index i,
\* 0 <= i < min(8, realBands); a setBandGain(i, db) that reaches an
\* equalizer with realBands <= i < 8 records db in the mirrored and in the
\* local band state and issues no band-level call, and the level the
\* equalizer holds for band i stays as it was.
UnsupportedBandNotTransmitted ==
    /\ [](GlobalEq.bandCalls \subseteq SupportedBands)
    /\ []((/\ lastOp.op = "setBandGain"
            /\ lastOp.res = "Ok"
            /\ GlobalEq.eq # "null"
            /\ lastOp.idx \in Bands \ SupportedBands) =>
              (/\ GlobalEq.bandCalls = {}
               /\ GlobalEq.bandGains[lastOp.idx] = lastOp.arg
               /\ band_states[lastOp.idx] = lastOp.arg))
    /\ [][GlobalEq'.eqLevel # GlobalEq.eqLevel =>
            \/ GlobalEq'.eqLevel = Flat
            \/ \E i \in GlobalEq'.bandCalls :
                  \A j \in Bands \ GlobalEq'.bandCalls :
                      GlobalEq'.eqLevel[j] = GlobalEq.eqLevel[j]]_vars

\* C20 witness: the equalizer has 5 bands; setBandGain(6, -24 dB) returned
\* Ok, band 6 holds -24 dB locally and in the mirror, and no band-level
\* call was issued.
C20_GainForMissingBand ==
    /\ GlobalEq.eq # "null"
    /\ GlobalEq.realBands = 5
    /\ lastOp.op = "setBandGain"
    /\ lastOp.res = "Ok"
    /\ lastOp.idx = 6
    /\ lastOp.arg = -2400
    /\ GlobalEq.bandGains[6] = -2400
    /\ band_states[6] = -2400
    /\ GlobalEq.bandCalls = {}
    /\ GlobalEq.eqLevel[6] = 0

====
